---------------------------- MODULE Spec2Model ----------------------------
(***************************************************************************)
(* A model of burputils.BurpUtils (src/burputils.py): a wrapper around the *)
(* Burp IExtensionHelpers object.  Every public method is one action; the  *)
(* host (Burp) and the OS are the environment.  Python values are tagged   *)
(* records so that a byte string, one element of it, None and a host       *)
(* object are different values.                                            *)
(***************************************************************************)
EXTENDS Integers, Sequences, FiniteSets

\* ------------------------------------------------------------- bounds
\* Longest raw HTTP message (in bytes) the environment hands to the wrapper.
MaxLen == 3
\* Longest argument list handed to runExternal.
MaxArgs == 2
\* Capacity of an OS pipe, in bytes (an OS property, scaled down).
PipeCap == 2
\* Most bytes a child process writes before it exits.
MaxChildWrites == 3

\* ------------------------------------------------------ Python values
PyNone == [t |-> "None"]
PyBytes(s) == [t |-> "bytes", b |-> s]
PyInt(n) == [t |-> "int", i |-> n]
PyStr(s) == [t |-> "str", s |-> s]

\* How a call ends: with a value, or with an exception.
Return(v) == [kind |-> "return", val |-> v]
Raise(e) == [kind |-> "raise", exc |-> e]

\* What one invocation did: the host/OS calls it made, in order, and how it ended.
Out(log, res) == [log |-> log, res |-> res]

\* A byte is 0 or 1; byte 0 stands for the blank line that ends the headers.
Byte == {0, 1}

RECURSIVE SeqsUpTo(_, _)
SeqsUpTo(S, n) ==
  IF n = 0 THEN {<<>>}
  ELSE LET shorter == SeqsUpTo(S, n - 1)
       IN shorter \cup {Append(s, x) : s \in {q \in shorter : Len(q) = n - 1}, x \in S}

Msgs == SeqsUpTo(Byte, MaxLen)

\* ----------------------------------------------- Python built-ins used
\* seq[i] (0-based): one element, or IndexError past the end.
PyIndex(seq, i) ==
  IF i < Len(seq) THEN Return(PyInt(seq[i + 1])) ELSE Raise("IndexError")

\* seq[i:] (0-based): the suffix from index i, empty when i >= len(seq).
PySliceFrom(seq, i) == PyBytes(SubSeq(seq, i + 1, Len(seq)))

\* list.insert(index, object): index must be an integer, else TypeError;
\* an index past the end appends.
ListInsert(list, index, object) ==
  IF index.t # "int" THEN Raise("TypeError")
  ELSE LET k == IF index.i > Len(list) THEN Len(list) ELSE index.i
       IN Return(SubSeq(list, 1, k) \o <<object>> \o SubSeq(list, k + 1, Len(list)))

\* ------------------------------------------------- the host (Burp API)
\* The helper objects callbacks.getHelpers() can return.
Helpers == {"helperA", "helperB"}

\* Outcome of a host or OS call: "ok", or the failure it raises.
HostFailures == {"HostFailure"}
HostOutcomes == {"ok"} \cup HostFailures

\* IRequestInfo/IResponseInfo.getBodyOffset(): the index just past the first
\* blank line (byte 0), or the length when there is none.
RECURSIVE HostBodyOffset(_)
HostBodyOffset(msg) ==
  IF msg = <<>> THEN 0
  ELSE IF Head(msg) = 0 THEN 1 ELSE 1 + HostBodyOffset(Tail(msg))

\* An IHttpRequestResponse object, with its two messages.
HttpRequestResponse(req, resp) ==
  [t |-> "IHttpRequestResponse", request |-> req, response |-> resp]

\* IHttpRequestResponse.getRequest() / getResponse()
getRequest(requestResponse) == PyBytes(requestResponse.request)
getResponse(requestResponse) == PyBytes(requestResponse.response)

\* IExtensionHelpers.analyzeRequest(byte[] | IHttpRequestResponse): IRequestInfo
analyzeRequest(x) ==
  IF x.t = "IHttpRequestResponse"
  THEN Return([t |-> "IRequestInfo", msg |-> x.request,
               bodyOffset |-> HostBodyOffset(x.request), hasUrl |-> TRUE])
  ELSE IF x.t = "bytes"
  THEN Return([t |-> "IRequestInfo", msg |-> x.b,
               bodyOffset |-> HostBodyOffset(x.b), hasUrl |-> FALSE])
  ELSE Raise("TypeError")

\* IExtensionHelpers.analyzeResponse(byte[]): IResponseInfo
analyzeResponse(x) ==
  IF x.t = "bytes"
  THEN Return([t |-> "IResponseInfo", msg |-> x.b,
               bodyOffset |-> HostBodyOffset(x.b), hasUrl |-> FALSE])
  ELSE Raise("TypeError")

\* info.getBodyOffset()
getBodyOffset(info) == info.bodyOffset

\* info.getHeaders(): the header part of the analysed message, as a list.
getHeadersOfInfo(info) ==
  [t |-> "list", items |-> SubSeq(info.msg, 1, info.bodyOffset)]

\* IExtensionHelpers.buildHttpMessage(headers, body): byte[]
buildHttpMessage(headers, body) ==
  IF headers.t = "list" /\ body.t = "bytes"
  THEN Return(PyBytes(headers.items \o body.b))
  ELSE Raise("TypeError")

\* IExtensionHelpers.base64Encode(data): the host's encoding of data.
base64EncodeHost(data) ==
  IF data.t = "bytes" THEN Return([t |-> "base64", of |-> data.b])
  ELSE Raise("TypeError")

\* IExtensionHelpers.base64Decode(base64Data): the bytes it encodes.
base64DecodeHost(base64Data) ==
  IF base64Data.t = "base64" THEN Return(PyBytes(base64Data.of))
  ELSE Raise("TypeError")

\* headers.Headers: Headers(), importRaw(raw) and exportRaw().
Headers == [t |-> "Headers", raw |-> <<>>]
importRaw(hdr, rawHdr) == [hdr EXCEPT !.raw = rawHdr.items]
exportRaw(hdr) == [t |-> "list", items |-> hdr.raw]

\* One call on a host object, as the log records it.
HostCall(on, method, args, outcome) ==
  [on |-> on, method |-> method, args |-> args, outcome |-> outcome]

\* A call of self.burpHelper.<method>(args): the host raises hf, or answers
\* with `answer` (itself a Return or a Raise of the host's).
CallHelper(h, method, args, hf, answer) ==
  IF hf # "ok" THEN Out(<<HostCall(h, method, args, hf)>>, Raise(hf))
  ELSE IF answer.kind = "raise"
  THEN Out(<<HostCall(h, method, args, answer.exc)>>, answer)
  ELSE Out(<<HostCall(h, method, args, "ok")>>, answer)

\* ------------------------------------------------ BurpUtils, the code
\* BurpUtils.__init__
BurpUtilsInit(callbackHelperArg) == [burpHelper |-> callbackHelperArg]

\* getInfoFromBytes with the two branches exchanged.
getInfoFromBytes_Swapped(this, isRequest, rawBytes, hf) ==
  IF isRequest
  THEN CallHelper(this.burpHelper, "analyzeResponse", <<rawBytes>>, hf,
                  analyzeResponse(rawBytes))
  ELSE CallHelper(this.burpHelper, "analyzeRequest", <<rawBytes>>, hf,
                  analyzeRequest(rawBytes))

\* BurpUtils.getInfoFromBytes
getInfoFromBytes(this, isRequest, rawBytes, hf) ==
  IF isRequest
  THEN CallHelper(this.burpHelper, "analyzeRequest", <<rawBytes>>, hf,
                  analyzeRequest(rawBytes))
  ELSE CallHelper(this.burpHelper, "analyzeResponse", <<rawBytes>>, hf,
                  analyzeResponse(rawBytes))

\* getInfo handing the request bytes to analyzeResponse.
getInfo_RequestBytes(this, isRequest, requestResponse, hf) ==
  IF isRequest
  THEN CallHelper(this.burpHelper, "analyzeRequest", <<requestResponse>>, hf,
                  analyzeRequest(requestResponse))
  ELSE CallHelper(this.burpHelper, "analyzeResponse",
                  <<getRequest(requestResponse)>>, hf,
                  analyzeResponse(getRequest(requestResponse)))

\* BurpUtils.getInfo
getInfo(this, isRequest, requestResponse, hf) ==
  IF isRequest
  THEN CallHelper(this.burpHelper, "analyzeRequest", <<requestResponse>>, hf,
                  analyzeRequest(requestResponse))
  ELSE CallHelper(this.burpHelper, "analyzeResponse",
                  <<getResponse(requestResponse)>>, hf,
                  analyzeResponse(getResponse(requestResponse)))

\* BurpUtils.getBodyFromBytes
getBodyFromBytes(this, isRequest, rawBytes, hf) ==
  LET info == getInfoFromBytes(this, isRequest, rawBytes, hf)
  IN IF info.res.kind = "raise" THEN info
     ELSE Out(info.log, PyIndex(rawBytes.b, getBodyOffset(info.res.val)))

\* getBody slicing the response at the offset of the request's info.
getBody_RequestOffset(this, isRequest, requestResponse, hf) ==
  LET info == getInfo(this, TRUE, requestResponse, hf)
  IN IF info.res.kind = "raise" THEN info
     ELSE IF isRequest
     THEN Out(info.log, Return(PySliceFrom(getRequest(requestResponse).b,
                                           getBodyOffset(info.res.val))))
     ELSE Out(info.log, Return(PySliceFrom(getResponse(requestResponse).b,
                                           getBodyOffset(info.res.val))))

\* BurpUtils.getBody
getBody(this, isRequest, requestResponse, hf) ==
  LET info == getInfo(this, isRequest, requestResponse, hf)
  IN IF info.res.kind = "raise" THEN info
     ELSE IF isRequest
     THEN Out(info.log, Return(PySliceFrom(getRequest(requestResponse).b,
                                           getBodyOffset(info.res.val))))
     ELSE Out(info.log, Return(PySliceFrom(getResponse(requestResponse).b,
                                           getBodyOffset(info.res.val))))

\* BurpUtils.getHeaders
getHeaders(this, info, hf) ==
  LET hdr == Headers
  IN IF hf # "ok"
     THEN Out(<<HostCall("info", "getHeaders", <<info>>, hf)>>, Raise(hf))
     ELSE LET rawHdr == getHeadersOfInfo(info)
          IN Out(<<HostCall("info", "getHeaders", <<info>>, "ok")>>,
                 Return(importRaw(hdr, rawHdr)))

\* setRequestResponse with setRequest and setResponse exchanged.
setRequestResponse_Swapped(this, isRequest, message, requestResponse, hf) ==
  LET method == IF isRequest THEN "setResponse" ELSE "setRequest"
      log == <<HostCall("requestResponse", method, <<message>>, hf)>>
  IN IF hf # "ok"
     THEN [log |-> log, res |-> Raise(hf), rr |-> requestResponse]
     ELSE IF isRequest
     THEN [log |-> log, res |-> Return(PyNone),
           rr |-> [requestResponse EXCEPT !.response = message.b]]
     ELSE [log |-> log, res |-> Return(PyNone),
           rr |-> [requestResponse EXCEPT !.request = message.b]]

\* BurpUtils.setRequestResponse: also gives the requestResponse object afterwards.
setRequestResponse(this, isRequest, message, requestResponse, hf) ==
  LET method == IF isRequest THEN "setRequest" ELSE "setResponse"
      log == <<HostCall("requestResponse", method, <<message>>, hf)>>
  IN IF hf # "ok"
     THEN [log |-> log, res |-> Raise(hf), rr |-> requestResponse]
     ELSE IF isRequest
     THEN [log |-> log, res |-> Return(PyNone),
           rr |-> [requestResponse EXCEPT !.request = message.b]]
     ELSE [log |-> log, res |-> Return(PyNone),
           rr |-> [requestResponse EXCEPT !.response = message.b]]

\* BurpUtils.runExternal, up to the spawn: args.insert(command, 0).
\* Gives the list handed to Popen, or the exception raised before it.
runExternalArgs(command, args) == ListInsert(args, command, PyInt(0))

\* BurpUtils.createHTTPMessage
createHTTPMessage(this, headers, bodyBytes, hf) ==
  CallHelper(this.burpHelper, "buildHttpMessage",
             <<exportRaw(headers), bodyBytes>>, hf,
             buildHttpMessage(exportRaw(headers), bodyBytes))

\* BurpUtils.base64Decode
base64Decode(this, base64Data, hf) ==
  CallHelper(this.burpHelper, "base64Decode", <<base64Data>>, hf,
             base64DecodeHost(base64Data))

\* BurpUtils.base64Encode
base64Encode(this, data, hf) ==
  CallHelper(this.burpHelper, "base64Encode", <<data>>, hf,
             base64EncodeHost(data))

\* ------------------------------------------------------------- state
VARIABLES
  callbackHelper,  \* the helper handed to the constructor
  self,            \* the wrapper instance: its attributes
  rr,              \* the host's IHttpRequestResponse object
  lastCall,        \* the public operation invoked last, with its arguments
  hostLog,         \* the host and OS calls that invocation made, in order
  result,          \* how that invocation ended
  ppc,             \* where runExternal stands: "idle" when not inside it
  argv,            \* the list runExternal hands to Popen
  child,           \* the spawned process: "none", "running" or "exited"
  program,         \* the writes the child makes, in order: <<stream, byte>>
  cpc,             \* how many of them it has made
  outPipe,         \* bytes in the stdout pipe, written and not yet read
  errPipe,         \* bytes in the stderr pipe
  handles,         \* proc.stdout and proc.stderr: "none", "open" or "closed"
  output,          \* runExternal's local `output`
  err,             \* runExternal's local `err`
  sysStdout        \* what has been written to sys.stdout

wrapperVars == <<callbackHelper, self, rr, lastCall, hostLog, result>>
procVars == <<argv, child, program, cpc, outPipe, errPipe, handles, output, err>>
vars == <<wrapperVars, ppc, procVars, sysStdout>>

\* Arguments the environment draws.
Commands == {PyStr("cmd")}
ArgLists == SeqsUpTo({PyStr("a"), PyStr("b")}, MaxArgs)
Writes == {"out", "err"} \X Byte
Programs == SeqsUpTo(Writes, MaxChildWrites)
Infos ==
  {analyzeRequest(PyBytes(m)).val : m \in Msgs}
    \cup {analyzeResponse(PyBytes(m)).val : m \in Msgs}
    \cup {analyzeRequest(rr).val}
HeaderObjects == {importRaw(Headers, getHeadersOfInfo(i)) : i \in Infos}
Bodies == {PySliceFrom(m, HostBodyOffset(m)) : m \in Msgs}

NoProcess ==
  /\ argv = <<>>
  /\ child = "none"
  /\ program = <<>>
  /\ cpc = 0
  /\ outPipe = <<>>
  /\ errPipe = <<>>
  /\ handles = [stdout |-> "none", stderr |-> "none"]
  /\ output = <<>>
  /\ err = <<>>

\* No invocation is under way: the caller has the last result.
NoCall == [op |-> "none"]

\* The wrapper is called from one thread, one blocking call at a time.
CanCall == lastCall = NoCall /\ ppc = "idle"

\* The state after BurpUtils(callbackHelper).
Init ==
  /\ callbackHelper \in Helpers
  /\ self = BurpUtilsInit(callbackHelper)
  /\ rr \in {HttpRequestResponse(q, p) : q \in Msgs, p \in Msgs}
  /\ lastCall = NoCall
  /\ hostLog = <<>>
  /\ result = Return(PyNone)
  /\ ppc = "idle"
  /\ NoProcess
  /\ sysStdout = <<>>

\* An invocation that leaves the wrapper and the host objects alone.
Finish(call, out) ==
  /\ lastCall' = call
  /\ hostLog' = out.log
  /\ result' = out.res
  /\ UNCHANGED <<callbackHelper, self, rr, ppc, procVars, sysStdout>>

Call_getInfoFromBytes ==
  /\ CanCall
  /\ \E isRequest \in BOOLEAN, rawBytes \in Msgs, hf \in HostOutcomes :
       Finish([op |-> "getInfoFromBytes", isRequest |-> isRequest,
               rawBytes |-> PyBytes(rawBytes)],
              getInfoFromBytes(self, isRequest, PyBytes(rawBytes), hf))

Call_getInfo ==
  /\ CanCall
  /\ \E isRequest \in BOOLEAN, hf \in HostOutcomes :
       Finish([op |-> "getInfo", isRequest |-> isRequest],
              getInfo(self, isRequest, rr, hf))

Call_getBodyFromBytes ==
  /\ CanCall
  /\ \E isRequest \in BOOLEAN, rawBytes \in Msgs, hf \in HostOutcomes :
       Finish([op |-> "getBodyFromBytes", isRequest |-> isRequest,
               rawBytes |-> PyBytes(rawBytes)],
              getBodyFromBytes(self, isRequest, PyBytes(rawBytes), hf))

Call_getBody ==
  /\ CanCall
  /\ \E isRequest \in BOOLEAN, hf \in HostOutcomes :
       Finish([op |-> "getBody", isRequest |-> isRequest],
              getBody(self, isRequest, rr, hf))

Call_getHeaders ==
  /\ CanCall
  /\ \E info \in Infos, hf \in HostOutcomes :
       Finish([op |-> "getHeaders", info |-> info], getHeaders(self, info, hf))

Call_setRequestResponse ==
  /\ CanCall
  /\ \E isRequest \in BOOLEAN, message \in Msgs, hf \in HostOutcomes :
       LET out == setRequestResponse(self, isRequest, PyBytes(message), rr, hf)
       IN /\ lastCall' = [op |-> "setRequestResponse", isRequest |-> isRequest,
                          message |-> PyBytes(message)]
          /\ hostLog' = out.log
          /\ result' = out.res
          /\ rr' = out.rr
          /\ UNCHANGED <<callbackHelper, self, ppc, procVars, sysStdout>>

\* runExternal, lines 148-152: the insert raises, or the call goes on to Popen.
Call_runExternal ==
  /\ CanCall
  /\ \E command \in Commands, args \in ArgLists :
       LET list == runExternalArgs(command, args)
       IN /\ lastCall' = [op |-> "runExternal", command |-> command, args |-> args]
          /\ hostLog' = <<>>
          /\ IF list.kind = "raise"
             THEN /\ result' = list
                  /\ UNCHANGED <<ppc, procVars>>
             ELSE /\ result' = Return(PyNone)
                  /\ ppc' = "Popen"
                  /\ argv' = list.val
                  /\ UNCHANGED <<child, program, cpc, outPipe, errPipe, handles,
                                 output, err>>
          /\ UNCHANGED <<callbackHelper, self, rr, sysStdout>>

Call_createHTTPMessage ==
  /\ CanCall
  /\ \E headers \in HeaderObjects, bodyBytes \in Bodies, hf \in HostOutcomes :
       Finish([op |-> "createHTTPMessage", headers |-> headers,
               bodyBytes |-> bodyBytes],
              createHTTPMessage(self, headers, bodyBytes, hf))

Call_base64Decode ==
  /\ CanCall
  /\ \E data \in Msgs, hf \in HostOutcomes :
       Finish([op |-> "base64Decode",
               base64Data |-> base64EncodeHost(PyBytes(data)).val],
              base64Decode(self, base64EncodeHost(PyBytes(data)).val, hf))

\* base64Encode keeping its argument in the instance.
Call_base64Encode_Caching ==
  /\ CanCall
  /\ \E data \in Msgs, hf \in HostOutcomes :
       LET out == base64Encode(self, PyBytes(data), hf)
       IN /\ lastCall' = [op |-> "base64Encode", data |-> PyBytes(data)]
          /\ hostLog' = out.log
          /\ result' = out.res
          /\ self' = [burpHelper |-> self.burpHelper, lastData |-> PyBytes(data)]
          /\ UNCHANGED <<callbackHelper, rr, ppc, procVars, sysStdout>>

Call_base64Encode ==
  /\ CanCall
  /\ \E data \in Msgs, hf \in HostOutcomes :
       Finish([op |-> "base64Encode", data |-> PyBytes(data)],
              base64Encode(self, PyBytes(data), hf))

\* The call is over: the caller takes its result (or its exception) and goes on.
CallerResumes ==
  /\ lastCall # NoCall
  /\ ppc = "idle"
  /\ lastCall' = NoCall
  /\ hostLog' = <<>>
  /\ result' = Return(PyNone)
  /\ UNCHANGED <<callbackHelper, self, rr, ppc, procVars, sysStdout>>

Next ==
  \/ Call_getInfoFromBytes
  \/ Call_getInfo
  \/ Call_getBodyFromBytes
  \/ Call_getBody
  \/ Call_getHeaders
  \/ Call_setRequestResponse
  \/ Call_runExternal
  \/ Call_createHTTPMessage
  \/ Call_base64Decode
  \/ Call_base64Encode
  \/ CallerResumes

Spec == Init /\ [][Next]_vars

\* ------------------------------------- runExternal from Popen onwards
\* Lines 154-160, one action per statement, with the child process and the
\* two pipes between them.  Line 152 raises for every command string, so
\* Spec never takes these steps; SpecPipe takes them from line 154, the
\* list of strings being what the docstring says Popen is handed.

StdoutOf(prog) == SelectSeq(prog, LAMBDA w : w[1] = "out")
StderrOf(prog) == SelectSeq(prog, LAMBDA w : w[1] = "err")
BytesOf(ws) == [k \in 1..Len(ws) |-> ws[k][2]]

InitPipe ==
  /\ callbackHelper = "helperA"
  /\ self = BurpUtilsInit(callbackHelper)
  /\ rr = HttpRequestResponse(<<>>, <<>>)
  /\ \E command \in Commands, args \in ArgLists :
       /\ lastCall = [op |-> "runExternal", command |-> command, args |-> args]
       /\ argv = <<command>> \o args
  /\ hostLog = <<>>
  /\ result = Return(PyNone)
  /\ ppc = "Popen"
  /\ child = "none"
  /\ program = <<>>
  /\ cpc = 0
  /\ outPipe = <<>>
  /\ errPipe = <<>>
  /\ handles = [stdout |-> "none", stderr |-> "none"]
  /\ output = <<>>
  /\ err = <<>>
  /\ sysStdout = <<>>

\* Line 154: proc = Popen(args, stdout=PIPE, stderr=PIPE).  The OS fails, or
\* starts a child that will make the writes of some program.
Popen ==
  /\ ppc = "Popen"
  /\ \E osf \in HostOutcomes, prog \in Programs :
       IF osf # "ok"
       THEN /\ hostLog' = Append(hostLog, HostCall("os", "Popen", <<argv>>, osf))
            /\ result' = Raise(osf)
            /\ ppc' = "idle"
            /\ UNCHANGED <<child, program, handles>>
       ELSE /\ hostLog' = Append(hostLog, HostCall("os", "Popen", <<argv>>, "ok"))
            /\ child' = "running"
            /\ program' = prog
            /\ handles' = [stdout |-> "open", stderr |-> "open"]
            /\ ppc' = "stdout.read"
            /\ UNCHANGED result
  /\ UNCHANGED <<callbackHelper, self, rr, lastCall, argv, cpc, outPipe,
                 errPipe, output, err, sysStdout>>

\* The child writes its next byte; it blocks while that pipe is full.
ChildWrite ==
  /\ child = "running"
  /\ cpc < Len(program)
  /\ LET w == program[cpc + 1]
     IN IF w[1] = "out"
        THEN /\ Len(outPipe) < PipeCap
             /\ outPipe' = Append(outPipe, w[2])
             /\ UNCHANGED errPipe
        ELSE /\ Len(errPipe) < PipeCap
             /\ errPipe' = Append(errPipe, w[2])
             /\ UNCHANGED outPipe
  /\ cpc' = cpc + 1
  /\ UNCHANGED <<wrapperVars, ppc, argv, child, program, handles, output, err,
                 sysStdout>>

\* The child has made all its writes and exits: both pipes' write ends close.
ChildExit ==
  /\ child = "running"
  /\ cpc = Len(program)
  /\ child' = "exited"
  /\ UNCHANGED <<wrapperVars, ppc, argv, program, cpc, outPipe, errPipe,
                 handles, output, err, sysStdout>>

\* Line 155: output = proc.stdout.read().  Takes what the pipe holds; ends at
\* end-of-file (pipe empty, write end closed); blocks on an empty open pipe.
ReadStdout ==
  /\ ppc = "stdout.read"
  /\ IF outPipe # <<>>
     THEN /\ output' = output \o outPipe
          /\ outPipe' = <<>>
          /\ UNCHANGED ppc
     ELSE /\ child = "exited"
          /\ ppc' = "stdout.close"
          /\ UNCHANGED <<output, outPipe>>
  /\ UNCHANGED <<wrapperVars, argv, child, program, cpc, errPipe, handles, err,
                 sysStdout>>

\* Line 156: proc.stdout.close()
CloseStdout ==
  /\ ppc = "stdout.close"
  /\ handles' = [handles EXCEPT !.stdout = "closed"]
  /\ ppc' = "stderr.read"
  /\ UNCHANGED <<wrapperVars, argv, child, program, cpc, outPipe, errPipe,
                 output, err, sysStdout>>

\* Line 157: err = proc.stderr.read()
ReadStderr ==
  /\ ppc = "stderr.read"
  /\ IF errPipe # <<>>
     THEN /\ err' = err \o errPipe
          /\ errPipe' = <<>>
          /\ UNCHANGED ppc
     ELSE /\ child = "exited"
          /\ ppc' = "stderr.close"
          /\ UNCHANGED <<err, errPipe>>
  /\ UNCHANGED <<wrapperVars, argv, child, program, cpc, outPipe, handles,
                 output, sysStdout>>

\* Line 158: proc.stderr.close()
CloseStderr ==
  /\ ppc = "stderr.close"
  /\ handles' = [handles EXCEPT !.stderr = "closed"]
  /\ ppc' = "sys.stdout.write"
  /\ UNCHANGED <<wrapperVars, argv, child, program, cpc, outPipe, errPipe,
                 output, err, sysStdout>>

\* Line 159: sys.stdout.write(err)
WriteErr ==
  /\ ppc = "sys.stdout.write"
  /\ sysStdout' = sysStdout \o err
  /\ ppc' = "return"
  /\ UNCHANGED <<wrapperVars, procVars>>

\* Line 160: return output
ReturnOutput ==
  /\ ppc = "return"
  /\ result' = Return(PyBytes(output))
  /\ ppc' = "idle"
  /\ UNCHANGED <<callbackHelper, self, rr, lastCall, hostLog, procVars,
                 sysStdout>>

NextPipe ==
  \/ Popen
  \/ ChildWrite
  \/ ChildExit
  \/ ReadStdout
  \/ CloseStdout
  \/ ReadStderr
  \/ CloseStderr
  \/ WriteErr
  \/ ReturnOutput

SpecPipe == InitPipe /\ [][NextPipe]_vars

\* ------------------------------------------------------------ claims
\* Every host and OS call of the last invocation succeeded.
HostOk == \A k \in 1..Len(hostLog) : hostLog[k].outcome = "ok"

\* The failure the host was made to raise in the last invocation, or "ok".
InjectedFailure ==
  IF hostLog # <<>> /\ hostLog[Len(hostLog)].outcome \in HostFailures
  THEN hostLog[Len(hostLog)].outcome ELSE "ok"

\* C1: getBodyFromBytes(isRequest, rawBytes) returns the body as a byte
\* sequence: the suffix of rawBytes from the host's body offset to the end,
\* not a single element.
C1_BodyIsSuffix ==
  (lastCall.op = "getBodyFromBytes" /\ HostOk) =>
    result = Return(PySliceFrom(lastCall.rawBytes.b,
                                HostBodyOffset(lastCall.rawBytes.b)))

\* C2: a finished runExternal(command, args) has spawned exactly one process,
\* with argument vector command, args[0], args[1], ..., and raised nothing
\* before the spawn.
C2_SpawnsCommandThenArgs ==
  (lastCall.op = "runExternal" /\ ppc = "idle") =>
    /\ Len(hostLog) = 1
    /\ hostLog[1].method = "Popen"
    /\ hostLog[1].args = << <<lastCall.command>> \o lastCall.args >>

\* C3: getBody(True, rr) is the suffix of rr's request from the body offset of
\* the host's request info for rr, getBody(False, rr) the suffix of rr's
\* response from the body offset of the host's response info for that
\* response; and getBody leaves rr as it was.
C3_GetBodySlicesOwnMessage ==
  /\ [](lastCall.op = "getBody" /\ HostOk =>
          IF lastCall.isRequest
          THEN /\ hostLog[1].method = "analyzeRequest"
               /\ result = Return(PySliceFrom(getRequest(rr).b,
                              getBodyOffset(analyzeRequest(rr).val)))
          ELSE /\ hostLog[1].method = "analyzeResponse"
               /\ result = Return(PySliceFrom(getResponse(rr).b,
                              getBodyOffset(analyzeResponse(getResponse(rr)).val))))
  /\ [][lastCall'.op = "getBody" => rr' = rr]_vars

C3_Witness ==
  /\ lastCall.op = "getBody"
  /\ ~lastCall.isRequest
  /\ HostOk
  /\ HostBodyOffset(rr.request) # HostBodyOffset(rr.response)
  /\ result.val.b # <<>>

\* C4: getInfoFromBytes makes exactly one host call, analyzeRequest(rawBytes)
\* when isRequest and analyzeResponse(rawBytes) otherwise, and returns the
\* host's result as it is.
C4_OneAnalyzerCallByFlag ==
  lastCall.op = "getInfoFromBytes" =>
    /\ Len(hostLog) = 1
    /\ hostLog[1].on = self.burpHelper
    /\ hostLog[1].method =
         (IF lastCall.isRequest THEN "analyzeRequest" ELSE "analyzeResponse")
    /\ hostLog[1].args = <<lastCall.rawBytes>>
    /\ HostOk =>
         /\ result = (IF lastCall.isRequest
                      THEN analyzeRequest(lastCall.rawBytes)
                      ELSE analyzeResponse(lastCall.rawBytes))
         /\ result.val.t =
              (IF lastCall.isRequest THEN "IRequestInfo" ELSE "IResponseInfo")

C4_Witness ==
  /\ lastCall.op = "getInfoFromBytes"
  /\ ~lastCall.isRequest
  /\ HostOk
  /\ result.val.t = "IResponseInfo"
  /\ lastCall.rawBytes.b # <<>>

\* C5: getInfo makes exactly one host call: analyzeRequest on the whole
\* requestResponse object when isRequest, analyzeResponse on the object's
\* response bytes otherwise; and returns the host's result as it is.
C5_GetInfoPassesObjectOrResponse ==
  lastCall.op = "getInfo" =>
    /\ Len(hostLog) = 1
    /\ hostLog[1].on = self.burpHelper
    /\ IF lastCall.isRequest
       THEN /\ hostLog[1].method = "analyzeRequest"
            /\ hostLog[1].args = <<rr>>
            /\ HostOk => result = analyzeRequest(rr) /\ result.val.t = "IRequestInfo"
       ELSE /\ hostLog[1].method = "analyzeResponse"
            /\ hostLog[1].args = <<PyBytes(rr.response)>>
            /\ HostOk => /\ result = analyzeResponse(PyBytes(rr.response))
                         /\ result.val.t = "IResponseInfo"

C5_Witness ==
  /\ lastCall.op = "getInfo"
  /\ ~lastCall.isRequest
  /\ HostOk
  /\ rr.request # rr.response
  /\ result.val.msg = rr.response

\* C6: setRequestResponse returns nothing and changes requestResponse only:
\* its request becomes message when isRequest (response kept), its response
\* becomes message otherwise (request kept); the wrapper is left as it was.
C6_SetsOneSideOnly ==
  [][(lastCall'.op = "setRequestResponse" /\ hostLog'[1].outcome = "ok") =>
       /\ result' = Return(PyNone)
       /\ IF lastCall'.isRequest
          THEN /\ hostLog'[1].method = "setRequest"
               /\ rr'.request = lastCall'.message.b
               /\ rr'.response = rr.response
          ELSE /\ hostLog'[1].method = "setResponse"
               /\ rr'.response = lastCall'.message.b
               /\ rr'.request = rr.request
       /\ UNCHANGED <<callbackHelper, self, sysStdout>>]_vars

C6_Witness ==
  /\ lastCall.op = "setRequestResponse"
  /\ lastCall.isRequest
  /\ HostOk
  /\ rr.request = lastCall.message.b
  /\ rr.response # rr.request

\* C7: a public operation ends with the failure its host or OS call raised,
\* and with no failure at all when those calls succeed.
C7_OnlyHostFailuresReachCaller ==
  (lastCall # NoCall /\ ppc = "idle") =>
    /\ self = BurpUtilsInit(callbackHelper)
    /\ IF HostOk THEN result.kind = "return"
       ELSE result = Raise(hostLog[Len(hostLog)].outcome)

\* The first half of C7 alone: a failure raised by a host or OS call is the
\* failure the caller gets, and the wrapper is left as it was.
HostFailureReachesCaller ==
  (lastCall # NoCall /\ ppc = "idle" /\ ~HostOk) =>
    /\ self = BurpUtilsInit(callbackHelper)
    /\ result = Raise(hostLog[Len(hostLog)].outcome)

StdoutDrainedBeforeStderr ==
  (ppc \in {"stderr.read", "stderr.close", "sys.stdout.write", "return"} \/ err # <<>>) =>
    /\ outPipe = <<>>
    /\ child = "exited"
    /\ output = BytesOf(StdoutOf(program))

FreshResult ==
  LET fresh == BurpUtilsInit(callbackHelper)
      hf == InjectedFailure
  IN CASE lastCall.op = "getInfoFromBytes" ->
            getInfoFromBytes(fresh, lastCall.isRequest, lastCall.rawBytes, hf).res
       [] lastCall.op = "getInfo" -> getInfo(fresh, lastCall.isRequest, rr, hf).res
       [] lastCall.op = "getBodyFromBytes" ->
            getBodyFromBytes(fresh, lastCall.isRequest, lastCall.rawBytes, hf).res
       [] lastCall.op = "getBody" -> getBody(fresh, lastCall.isRequest, rr, hf).res
       [] lastCall.op = "getHeaders" -> getHeaders(fresh, lastCall.info, hf).res
       [] lastCall.op = "setRequestResponse" ->
            setRequestResponse(fresh, lastCall.isRequest, lastCall.message, rr, hf).res
       [] lastCall.op = "runExternal" ->
            runExternalArgs(lastCall.command, lastCall.args)
       [] lastCall.op = "createHTTPMessage" ->
            createHTTPMessage(fresh, lastCall.headers, lastCall.bodyBytes, hf).res
       [] lastCall.op = "base64Decode" ->
            base64Decode(fresh, lastCall.base64Data, hf).res
       [] lastCall.op = "base64Encode" -> base64Encode(fresh, lastCall.data, hf).res
       [] OTHER -> result

\* C10: the wrapper's only attribute is burpHelper, it stays the helper the
\* constructor was given, every helper call goes to it, and an operation's
\* result is what a new instance would give for the same arguments.
C10_OnlyStateIsHelper ==
  /\ DOMAIN self = {"burpHelper"}
  /\ self.burpHelper = callbackHelper
  /\ \A k \in 1..Len(hostLog) :
       hostLog[k].on \in Helpers => hostLog[k].on = callbackHelper
  /\ ppc = "idle" => result = FreshResult

C10_Witness ==
  /\ lastCall.op = "createHTTPMessage"
  /\ HostOk
  /\ callbackHelper = "helperB"
  /\ Len(result.val.b) >= 2
  /\ rr.request # <<>>

=============================================================================
